---------------------------- MODULE Spec2Model ----------------------------
(***************************************************************************)
(* murphy_event_scraper.py: main() fetches the event listing, scrapes the  *)
(* base page and every discovered pagination page with scrape_page(), and  *)
(* writes one calendar file per collected event with generate_ics_file().  *)
(*                                                                         *)
(* Text is modelled as a sequence of one-character strings, so that        *)
(* strip(), the two re.sub() calls and the [:50] slice are computed on     *)
(* characters.  A timestamp attribute and an href are sequences of         *)
(* tokens: rstrip('Zz') and startswith() work on the token at the end /    *)
(* at the front.                                                           *)
(***************************************************************************)
EXTENDS Integers, Sequences, FiniteSets, TLC

VARIABLES
    pc,          \* position of the running function
    arg,         \* argument of a stand-alone call of scrape_page / generate_ics_file
    soup,        \* main: pager hrefs of the response of line 141, in markup order
    page_links,  \* main: the set built in lines 155-161
    queue,       \* main: sorted(list(page_links)) not yet scraped
    all_events,  \* main: the list of collected event records
    gets,        \* history: every requests.get issued, in order, with its outcome
    scraped,     \* history: every scrape_page call, its response and its result
    emitted,     \* history: the records passed to generate_ics_file, in order
    written,     \* history: title, filename and outcome of every write attempt
    files,       \* the directory 'events': filename -> content
    dirExists    \* whether the directory 'events' exists

vars == <<pc, arg, soup, page_links, queue, all_events, gets, scraped,
          emitted, written, files, dirExists>>

----------------------------------------------------------------------------
(* Bounds of the model *)

MaxTitleLen == 3        \* free characters of a title handed to generate_ics_file
MaxMarkers == 2         \* trailing 'Z'/'z' characters of a timestamp attribute
MaxContainers == 2      \* containers of a page handed to a stand-alone scrape_page
MaxPagerLinks == 2      \* pager anchors in the markup of the base page
MaxCalls == 2           \* repeated stand-alone calls of generate_ics_file

----------------------------------------------------------------------------
(* Characters: the classes of Python's re and str.strip *)

Letters == {"A", "b", "N", "o", "T", "i", "t", "l", "e", "F", "u", "n", "d",
            "L", "c", "a"}
Digits == {"7"}
Alnum == Letters \cup Digits
Space == {" ", "\t"}

\* \w of a str pattern: alphanumeric characters and the underscore
IsWord(c) == c \in Alnum \/ c = "_"
\* \s, and the characters str.strip() removes
IsSpace(c) == c \in Space

RECURSIVE LStrip(_)
LStrip(s) == IF s # <<>> /\ IsSpace(Head(s)) THEN LStrip(Tail(s)) ELSE s

RECURSIVE RStrip(_)
RStrip(s) ==
    IF s # <<>> /\ IsSpace(s[Len(s)]) THEN RStrip(SubSeq(s, 1, Len(s) - 1)) ELSE s

\* str.strip()
Strip(s) == RStrip(LStrip(s))

\* re.sub(r'[^\w\s-]', '', s)
RemoveInvalid(s) == SelectSeq(s, LAMBDA c : IsWord(c) \/ IsSpace(c) \/ c = "-")

IsSep(c) == IsSpace(c) \/ c = "-"

\* re.sub(r'[-\s]+', '-', s)
Collapse(s) ==
    LET F[i \in 0..Len(s)] ==
            IF i = 0 THEN <<>>
            ELSE IF IsSep(s[i])
                 THEN IF i > 1 /\ IsSep(s[i - 1]) THEN F[i - 1]
                      ELSE Append(F[i - 1], "-")
                 ELSE Append(F[i - 1], s[i])
    IN  F[Len(s)]

\* s[:n]
Take(s, n) == SubSeq(s, 1, IF Len(s) < n THEN Len(s) ELSE n)

FilenameMax == 50
IcsExt == <<".", "i", "c", "s">>

\* the slice taken one character too long
FilenameBaseOffByOne(title) ==
    Take(Collapse(Strip(RemoveInvalid(title))), FilenameMax + 1)

FilenameBase(title) == Take(Collapse(Strip(RemoveInvalid(title))), FilenameMax)

\* lines 26-28 of generate_ics_file
Filename(title) == FilenameBase(title) \o IcsExt

NoTitleFound == <<"N", "o", " ", "T", "i", "t", "l", "e", " ", "F", "o", "u", "n", "d">>
NoLocationFound == <<"N", "o", " ", "L", "o", "c", "a", "t", "i", "o", "n", " ",
                     "F", "o", "u", "n", "d">>

----------------------------------------------------------------------------
(* Timestamps: dateutil.parser.parse and pytz localize *)

\* tokens of a datetime attribute
March == "2025-03-10T14:30:00"
January == "2025-01-15T09:00:00"
Offset == "+00:00"
Junk == "soon"
Huge == "99999999999999999999"
UtcMarkers == {"Z", "z"}

Wall(tok) ==
    IF tok = March THEN [y |-> 2025, m |-> 3, d |-> 10, hh |-> 14, mm |-> 30]
    ELSE [y |-> 2025, m |-> 1, d |-> 15, hh |-> 9, mm |-> 0]

NoWall == [y |-> 0, m |-> 0, d |-> 0, hh |-> 0, mm |-> 0]

\* removesuffix('Z') in place of rstrip('Zz')
RemoveSuffixZ(s) ==
    IF s # <<>> /\ s[Len(s)] = "Z" THEN SubSeq(s, 1, Len(s) - 1) ELSE s

\* datetime_str.rstrip('Zz')
RECURSIVE RStripZz(_)
RStripZz(s) ==
    IF s # <<>> /\ s[Len(s)] \in UtcMarkers
    THEN RStripZz(SubSeq(s, 1, Len(s) - 1))
    ELSE s

\* dateutil.parser.parse(s): a naive datetime, an aware one (the string carries
\* an offset or a UTC marker), ParserError (a ValueError), or OverflowError (a
\* number of the string exceeds the C integer range)
Parse(s) ==
    IF Len(s) = 1 /\ s[1] \in {March, January}
        THEN [kind |-> "naive", wall |-> Wall(s[1]), utcoffset |-> 0]
    ELSE IF Len(s) = 2 /\ s[1] \in {March, January}
            /\ s[2] \in UtcMarkers \cup {Offset}
        THEN [kind |-> "aware", wall |-> Wall(s[1]), utcoffset |-> 0]
    ELSE IF Len(s) >= 1 /\ s[1] = Huge
        THEN [kind |-> "OverflowError", wall |-> NoWall, utcoffset |-> 0]
    ELSE [kind |-> "ValueError", wall |-> NoWall, utcoffset |-> 0]

\* the UTC offset of America/Chicago on a 2025 civil date (hours)
ChicagoOffset(w) ==
    IF (w.m > 3 /\ w.m < 11) \/ (w.m = 3 /\ w.d >= 9) \/ (w.m = 11 /\ w.d < 2)
    THEN 0 - 5 ELSE 0 - 6

\* central_tz.localize(dt): the wall clock is kept and the zone attached; an
\* aware argument raises ValueError
Localize(p) ==
    IF p.kind = "naive"
    THEN [kind |-> "aware", wall |-> p.wall, tz |-> "America/Chicago",
          utcoffset |-> ChicagoOffset(p.wall)]
    ELSE [kind |-> "ValueError", wall |-> NoWall, tz |-> "", utcoffset |-> 0]

\* lines 110-114: the aware datetime, or the exception raised
Normalize(datetime_str) ==
    LET parsed == Parse(RStripZz(datetime_str))
    IN  IF parsed.kind \in {"ValueError", "OverflowError"}
        THEN [kind |-> parsed.kind, wall |-> NoWall, tz |-> "", utcoffset |-> 0]
        ELSE Localize(parsed)

----------------------------------------------------------------------------
(* scrape_page: one container, then the loop over the containers *)

SiteOrigin == <<"https://murphy.tulane.edu">>

\* lines 77-82
ResolveLink(href) ==
    IF href # <<>> /\ href[1] = "/" THEN SiteOrigin \o href ELSE href

\* lines 75-89: a container's anchor is "none", or holds a span.font-bold
\* ("span") or not ("plain"); text is the text of the span, or of the anchor
TitleOf(item) ==
    IF item.anchor = "none" THEN NoTitleFound ELSE Strip(item.text)

LinkOf(item) ==
    IF item.anchor = "none" THEN <<>> ELSE ResolveLink(item.href)

\* lines 92-94
DatetimeStrOf(item) == IF item.time THEN item.ts ELSE <<>>

\* lines 97-99
LocationOf(item) ==
    IF item.loc.present THEN Strip(item.loc.text) ELSE NoLocationFound

\* the except clause of line 127
Caught == {"ValueError", "TypeError"}

\* lines 68-128, one iteration: "record" (appended), "skip" (nothing
\* appended, the loop goes on) or "raise" (the exception leaves scrape_page)
ScrapeContainer(item) ==
    LET datetime_str == DatetimeStrOf(item)
        n == Normalize(datetime_str)
    IN  IF datetime_str = <<>> THEN [kind |-> "skip", rec |-> <<>>]
        ELSE IF n.kind = "aware"
            THEN [kind |-> "record",
                  rec |-> <<[title |-> TitleOf(item), link |-> LinkOf(item),
                             datetime |-> [wall |-> n.wall, tz |-> n.tz,
                                           utcoffset |-> n.utcoffset],
                             location |-> LocationOf(item)]>>]
        ELSE IF n.kind \in Caught THEN [kind |-> "skip", rec |-> <<>>]
        ELSE [kind |-> "raise", rec |-> <<>>]

\* lines 58-130 on the containers of a fetched page: the list returned, the
\* per-container outcomes, and whether an exception left the function
RECURSIVE ScrapeLoop(_, _, _)
ScrapeLoop(containers, events, trace) ==
    IF containers = <<>>
    THEN [events |-> events, trace |-> trace, raised |-> FALSE]
    ELSE LET o == ScrapeContainer(Head(containers))
         IN  IF o.kind = "raise"
             THEN [events |-> <<>>, trace |-> Append(trace, o), raised |-> TRUE]
             ELSE ScrapeLoop(Tail(containers), events \o o.rec, Append(trace, o))

ScrapeContainers(containers) == ScrapeLoop(containers, <<>>, <<>>)

----------------------------------------------------------------------------
(* generate_ics_file *)

\* lines 11-22: the calendar holding the one event
Content(event) ==
    [complete |-> TRUE, name |-> event.title, begin |-> event.datetime,
     location |-> event.location,
     description |-> IF event.link # <<>>
                     THEN <<"For more details, visit: ">> \o event.link
                     ELSE <<>>]

\* what open(filepath, 'w') leaves when writelines fails part-way
Truncated ==
    [complete |-> FALSE, name |-> <<>>,
     begin |-> [wall |-> NoWall, tz |-> "", utcoffset |-> 0],
     location |-> <<>>, description |-> <<>>]

\* open(filepath, 'x'): a file that exists is kept
WriteFileExclusive(fs, filename, content) ==
    [f \in DOMAIN fs \cup {filename} |-> IF f \in DOMAIN fs THEN fs[f] ELSE content]

\* open(filepath, 'w') followed by writelines: the file is created or replaced
WriteFile(fs, filename, content) ==
    [f \in DOMAIN fs \cup {filename} |-> IF f = filename THEN content ELSE fs[f]]

\* outcomes of lines 37-38: written, open() raised, writelines raised
WriteOutcomes == {"ok", "open_error", "write_error"}

\* the exception lines 37-38 raise
WriteException(outcome) == IF outcome = "ok" THEN "none" ELSE "IOError"

\* an except clause naming another exception
CaughtWriteOther == {"ValueError"}

\* the except clause of line 40
CaughtWrite == {"IOError"}

\* whether the exception leaves generate_ics_file
Escapes(outcome) == WriteException(outcome) \notin CaughtWrite \cup {"none"}

FilesAfter(fs, event, outcome) ==
    IF outcome = "ok" THEN WriteFile(fs, Filename(event.title), Content(event))
    ELSE IF outcome = "write_error"
         THEN WriteFile(fs, Filename(event.title), Truncated)
    ELSE fs

\* generate_ics_file(event), lines 9-41.  Creating the directory (lines
\* 31-32) is taken to succeed.
GenerateIcs(event, outcome) ==
    /\ dirExists' = TRUE
    /\ files' = FilesAfter(files, event, outcome)
    /\ emitted' = Append(emitted, event)
    /\ written' = Append(written, [title |-> event.title,
                                   filename |-> Filename(event.title),
                                   outcome |-> outcome])

----------------------------------------------------------------------------
(* Inputs *)

EmptyFiles == [f \in {} |-> Truncated]

RECURSIVE Rep(_, _)
Rep(c, k) == IF k = 0 THEN <<>> ELSE <<c>> \o Rep(c, k - 1)

SeqsUpTo(S, n) == UNION {[1..k -> S] : k \in 0..n}

\* titles: free characters, alone or after a run that fills the filename
TitleChars == {"b", "7", "_", " ", "-", "!"}
FileTitles ==
    {Rep("b", k) \o t : k \in {0, FilenameMax - 2}, t \in SeqsUpTo(TitleChars, MaxTitleLen)}

MarchChicago ==
    [wall |-> Wall(March), tz |-> "America/Chicago", utcoffset |-> ChicagoOffset(Wall(March))]

FileEvents ==
    {[title |-> t, link |-> l, datetime |-> MarchChicago, location |-> NoLocationFound] :
        t \in FileTitles, l \in {<<>>, SiteOrigin \o <<"/", "events/foo">>}}

\* timestamps: a body followed by up to MaxMarkers UTC markers
Alternating(first, k) ==
    [i \in 1..k |-> IF (i % 2 = 1) = (first = "Z") THEN "Z" ELSE "z"]
Markers == {Alternating(c, k) : c \in UtcMarkers, k \in 0..MaxMarkers}
Bodies == {<<>>, <<March>>, <<January>>, <<March, Offset>>, <<Junk>>, <<Huge>>}
Timestamps == {b \o m : b \in Bodies, m \in Markers}

Texts == {<<>>, <<" ">>, <<"A", "b">>, <<" ", "A", "b", " ">>}
Hrefs == {<<>>, <<"/", "events/foo">>, <<"https://example.org/e">>}
NoLoc == [present |-> FALSE, text |-> <<>>]
Locs == {NoLoc, [present |-> TRUE, text |-> <<"L">>], [present |-> TRUE, text |-> <<" ">>]}

Container(anchor, href, text, time, ts, loc) ==
    [anchor |-> anchor, href |-> href, text |-> text, time |-> time, ts |-> ts, loc |-> loc]

ParseContainers ==
    {Container(a, <<"/", "events/foo">>, t, tm, <<March, "Z">>, NoLoc) :
        a \in {"span", "plain"}, t \in Texts, tm \in BOOLEAN}
    \cup {Container("none", <<>>, <<>>, tm, <<March, "Z">>, NoLoc) : tm \in BOOLEAN}
    \cup {Container("span", <<"/", "events/foo">>, <<"A", "b">>, TRUE, ts, NoLoc) :
        ts \in Timestamps}
    \cup {Container("plain", h, <<"A", "b">>, TRUE, <<January>>, l) :
        h \in Hrefs, l \in Locs}

ParsePages == SeqsUpTo(ParseContainers, MaxContainers)

BaseUrl == <<"https://murphy.tulane.edu/events/upcoming-events">>

\* hrefs of the pager anchors: none, two page queries, another path
PagerHrefs == {<<>>, <<"?page=", "1">>, <<"?page=", "2">>, <<"/events/archive">>}
PagerLists == SeqsUpTo(PagerHrefs, MaxPagerLinks)

EvA == Container("span", <<"/", "events/a">>, <<"A", "b">>, TRUE, <<March, "Z">>,
                 [present |-> TRUE, text |-> <<"L">>])
EvB == Container("plain", <<"https://example.org/e">>, <<" ", "A", "b", "!">>, TRUE,
                 <<January>>, NoLoc)
EvC == Container("span", <<"/", "events/c">>, <<"b", "_", "7">>, TRUE, <<March>>, NoLoc)
NoTs == Container("span", <<>>, <<"b", "7">>, FALSE, <<>>, NoLoc)
Ovf == Container("span", <<>>, <<"b", "7">>, TRUE, <<Huge>>, NoLoc)

\* the container lists the site answers a scrape with
MainPages == {<<>>, <<EvA>>, <<EvB, NoTs>>, <<EvC>>, <<Ovf>>}

----------------------------------------------------------------------------
(* scrape_page(url): the request, then the containers of the response *)

\* lines 46-130: the request is logged; a failed request returns [] (line 52);
\* otherwise the containers are scraped.  The value is the result of
\* ScrapeContainers, with raised = FALSE and no events for a failed request.
ScrapeResult(ok, containers) ==
    IF ok THEN ScrapeContainers(containers)
    ELSE [events |-> <<>>, trace |-> <<>>, raised |-> FALSE]

LogScrape(url, ok, containers) ==
    /\ gets' = Append(gets, [url |-> url, ok |-> ok])
    /\ scraped' = Append(scraped,
            [url |-> url, ok |-> ok, containers |-> containers,
             result |-> ScrapeResult(ok, containers)])

----------------------------------------------------------------------------
(* main *)

\* line 159
IsPageHref(href) == href # <<>> /\ href[1] = "?page="

\* lines 155-161
PageLinks(pager) ==
    {BaseUrl \o pager[i] : i \in {j \in DOMAIN pager : IsPageHref(pager[j])}}

\* the order of str on the modelled page URLs
UrlLess(u, v) == u[Len(u)] = "1" /\ v[Len(v)] = "2"

\* sorted(list(page_links)), line 166
RECURSIVE Sorted(_)
Sorted(S) ==
    IF S = {} THEN <<>>
    ELSE LET m == CHOOSE u \in S : \A v \in S \ {u} : UrlLess(u, v)
         IN  <<m>> \o Sorted(S \ {m})

\* where main goes once the pages in q are the only ones left and evs is
\* collected: the loop of line 166, else the test of line 174
AfterScrape(q, evs) ==
    IF q # <<>> THEN "pages" ELSE IF evs = <<>> THEN "exit_empty" ELSE "emit"

Init ==
    /\ pc = "start"
    /\ arg = <<>>
    /\ soup = <<>>
    /\ page_links = {}
    /\ queue = <<>>
    /\ all_events = <<>>
    /\ gets = <<>>
    /\ scraped = <<>>
    /\ emitted = <<>>
    /\ written = <<>>
    /\ files = EmptyFiles
    /\ dirExists = FALSE

\* lines 139-145, the request failing: main returns
FetchBaseFail ==
    /\ pc = "start"
    /\ gets' = Append(gets, [url |-> BaseUrl, ok |-> FALSE])
    /\ pc' = "exit_fetch"
    /\ UNCHANGED <<arg, soup, page_links, queue, all_events, scraped, emitted,
                   written, files, dirExists>>

\* lines 139-147, the request answered: the response is parsed into soup, of
\* which main reads the pager anchors only
FetchBaseOk ==
    /\ pc = "start"
    /\ \E pager \in PagerLists : soup' = pager
    /\ gets' = Append(gets, [url |-> BaseUrl, ok |-> TRUE])
    /\ pc' = "scrape_base"
    /\ UNCHANGED <<arg, page_links, queue, all_events, scraped, emitted,
                   written, files, dirExists>>

\* lines 151-176: scrape_page(base_url) requests the base page again; then the
\* pager anchors of soup become page_links
ScrapeBase ==
    /\ pc = "scrape_base"
    /\ \E ok \in BOOLEAN, containers \in MainPages :
        LET r == ScrapeResult(ok, containers)
            links == PageLinks(soup)
        IN  /\ ok \/ containers = <<>>
            /\ LogScrape(BaseUrl, ok, containers)
            /\ IF r.raised
               THEN /\ pc' = "crashed"
                    /\ UNCHANGED <<all_events, page_links, queue>>
               ELSE /\ all_events' = all_events \o r.events
                    /\ page_links' = links
                    /\ queue' = Sorted(links)
                    /\ pc' = AfterScrape(Sorted(links), all_events \o r.events)
    /\ UNCHANGED <<arg, soup, emitted, written, files, dirExists>>

\* lines 166-176: one iteration of the loop over the sorted page URLs
ScrapeNext ==
    /\ pc = "pages"
    /\ \E ok \in BOOLEAN, containers \in MainPages :
        LET r == ScrapeResult(ok, containers)
        IN  /\ ok \/ containers = <<>>
            /\ LogScrape(Head(queue), ok, containers)
            /\ IF r.raised
               THEN /\ pc' = "crashed"
                    /\ UNCHANGED <<all_events, queue>>
               ELSE /\ all_events' = all_events \o r.events
                    /\ queue' = Tail(queue)
                    /\ pc' = AfterScrape(Tail(queue), all_events \o r.events)
    /\ UNCHANGED <<arg, soup, page_links, emitted, written, files, dirExists>>

\* lines 180-183: one iteration of the loop over all_events
EmitNext ==
    /\ pc = "emit"
    /\ \E outcome \in WriteOutcomes :
        /\ GenerateIcs(all_events[Len(emitted) + 1], outcome)
        /\ pc' = IF Escapes(outcome) THEN "crashed"
                 ELSE IF Len(emitted) + 1 = Len(all_events) THEN "done"
                 ELSE "emit"
    /\ UNCHANGED <<arg, soup, page_links, queue, all_events, gets, scraped>>

Next == FetchBaseFail \/ FetchBaseOk \/ ScrapeBase \/ ScrapeNext \/ EmitNext

Spec == Init /\ [][Next]_vars

\* main runs to its end: no step waits on anything but the call in progress
FairSpec == Spec /\ WF_vars(Next)

----------------------------------------------------------------------------
(* scrape_page called on its own *)

InitParse ==
    /\ pc = "scrape_page"
    /\ arg = BaseUrl
    /\ soup = <<>>
    /\ page_links = {}
    /\ queue = <<>>
    /\ all_events = <<>>
    /\ gets = <<>>
    /\ scraped = <<>>
    /\ emitted = <<>>
    /\ written = <<>>
    /\ files = EmptyFiles
    /\ dirExists = FALSE

\* lines 47-52
CallScrapeFail ==
    /\ pc = "scrape_page"
    /\ LogScrape(arg, FALSE, <<>>)
    /\ pc' = "returned"
    /\ UNCHANGED <<arg, soup, page_links, queue, all_events, emitted, written,
                   files, dirExists>>

\* lines 47-130
CallScrapeOk ==
    /\ pc = "scrape_page"
    /\ \E containers \in ParsePages :
        /\ LogScrape(arg, TRUE, containers)
        /\ pc' = IF ScrapeContainers(containers).raised THEN "raised" ELSE "returned"
    /\ UNCHANGED <<arg, soup, page_links, queue, all_events, emitted, written,
                   files, dirExists>>

NextParse == CallScrapeFail \/ CallScrapeOk

SpecParse == InitParse /\ [][NextParse]_vars

----------------------------------------------------------------------------
(* generate_ics_file called on its own, once or again with the same event *)

InitFile ==
    /\ pc = "generate_ics_file"
    /\ arg \in FileEvents
    /\ soup = <<>>
    /\ page_links = {}
    /\ queue = <<>>
    /\ all_events = <<>>
    /\ gets = <<>>
    /\ scraped = <<>>
    /\ emitted = <<>>
    /\ written = <<>>
    /\ files = EmptyFiles
    /\ dirExists \in BOOLEAN

CallGenerateIcs ==
    /\ pc = "generate_ics_file"
    /\ \E outcome \in WriteOutcomes :
        /\ GenerateIcs(arg, outcome)
        /\ pc' = IF Escapes(outcome) THEN "raised" ELSE "returned"
    /\ UNCHANGED <<arg, soup, page_links, queue, all_events, gets, scraped>>

CallAgain ==
    /\ pc = "returned"
    /\ Len(written) < MaxCalls
    /\ pc' = "generate_ics_file"
    /\ UNCHANGED <<arg, soup, page_links, queue, all_events, gets, scraped,
                   emitted, written, files, dirExists>>

NextFile == CallGenerateIcs \/ CallAgain

SpecFile == InitFile /\ [][NextFile]_vars

----------------------------------------------------------------------------
(* Properties *)

Range(s) == {s[i] : i \in DOMAIN s}

Count(u) == Cardinality({i \in DOMAIN gets : gets[i].url = u})

\* the records the scrape_page calls returned, in call order
RECURSIVE Concat(_)
Concat(ss) == IF ss = <<>> THEN <<>> ELSE Head(ss) \o Concat(Tail(ss))
Collected == Concat([i \in DOMAIN scraped |-> scraped[i].result.events])

Ended == pc \in {"done", "exit_empty", "exit_fetch", "crashed"}

\* C1: whenever a request of the base URL fails, the run stops there: it is
\* the last request of the run and no calendar file is ever written.
C1_BaseFetchFailureAborts ==
    \A i \in DOMAIN gets :
        (gets[i].url = BaseUrl /\ ~gets[i].ok)
            => /\ i = Len(gets)
               /\ written = <<>>
               /\ files = EmptyFiles

\* C2: once the request of a discovered page has failed, the run is not cut
\* short: it does not end in an exception, and when it has ended every
\* discovered page was requested and every record the scrape_page calls
\* returned was passed to generate_ics_file.
C2_SubPageFailureOnlySkips ==
    (\E i \in DOMAIN gets : gets[i].url # BaseUrl /\ ~gets[i].ok)
        => /\ pc # "crashed"
           /\ Ended => /\ \A u \in page_links : Count(u) >= 1
                       /\ emitted = Collected

\* C3: no URL is requested twice, and a run that reaches its end has
\* requested the base URL once and every discovered page URL once.
C3_EachUrlRequestedOnce ==
    /\ \A i, j \in DOMAIN gets : gets[i].url = gets[j].url => i = j
    /\ pc \in {"done", "exit_empty"}
        => /\ Count(BaseUrl) = 1
           /\ \A u \in page_links : Count(u) = 1

BaseOf(filename) == SubSeq(filename, 1, Len(filename) - Len(IcsExt))
ExtOf(filename) == SubSeq(filename, Len(filename) - Len(IcsExt) + 1, Len(filename))

FilenameShape(allowed) ==
    /\ \A i \in DOMAIN written :
        /\ Len(written[i].filename) >= Len(IcsExt)
        /\ ExtOf(written[i].filename) = IcsExt
        /\ Range(BaseOf(written[i].filename)) \subseteq allowed
        /\ Len(BaseOf(written[i].filename)) <= 50
    /\ \A i, j \in DOMAIN written :
        written[i].title = written[j].title
            => written[i].filename = written[j].filename

\* C4 as stated: the filename of every write is '.ics' after at most 50
\* characters, each alphanumeric or a hyphen, and equal titles give equal
\* filenames.
C4_FilenameAlnumHyphen == FilenameShape(Alnum \cup {"-"})

\* C4 as amended: the filename of every write is '.ics' after at most 50
\* characters, each alphanumeric, an underscore or a hyphen, and equal titles
\* give equal filenames.
C4_FilenameWordHyphen == FilenameShape(Alnum \cup {"_", "-"})

\* a title longer than the limit whose filename keeps an underscore was written
C4_Witness ==
    \E i \in DOMAIN written :
        /\ Len(written[i].title) > 50
        /\ "_" \in Range(BaseOf(written[i].filename))
        /\ Len(written) = 2

\* the date-time a naive timestamp body stands for, in America/Chicago
StartOfBody(d) ==
    [wall |-> Wall(d), tz |-> "America/Chicago", utcoffset |-> ChicagoOffset(Wall(d))]

\* the containers of a fetched page whose timestamp is present and is a
\* date-time once its trailing UTC markers are dropped
HasStart(c) ==
    /\ c.time
    /\ c.ts # <<>>
    /\ c.ts[1] \in {March, January}
    /\ \A i \in 2..Len(c.ts) : c.ts[i] \in UtcMarkers
BodyOf(c) == c.ts[1]

\* C5: for every fetched page scrape_page returns, without raising, one
\* record per container whose timestamp is present and parseable, in
\* container order, each with the time of its container; the other containers
\* give no record.
C5_OneRecordPerParseableTimestamp ==
    \A k \in DOMAIN scraped :
        scraped[k].ok =>
            LET good == SelectSeq(scraped[k].containers, HasStart)
                evs == scraped[k].result.events
            IN  /\ ~scraped[k].result.raised
                /\ Len(evs) = Len(good)
                /\ \A i \in DOMAIN good :
                    evs[i].datetime = StartOfBody(BodyOf(good[i]))

Front(s) == SubSeq(s, 1, Len(s) - 1)

StartOf(outcome) ==
    IF outcome.kind = "record" THEN <<outcome.rec[1].datetime>> ELSE <<>>

\* C6: for a container whose timestamp ends with 'Z' or 'z', the start time
\* recorded (or its absence) is the one the timestamp without that character
\* gives; when the rest is a date-time the record holds its wall clock
\* unchanged, in America/Chicago, and '2025-03-10T14:30:00Z' gives
\* 2025-03-10 14:30 America/Chicago (UTC-5).
C6_UtcMarkerIgnored ==
    \A k \in DOMAIN scraped :
        \A i \in DOMAIN scraped[k].result.trace :
            LET c == scraped[k].containers[i]
                o == scraped[k].result.trace[i]
            IN  (c.time /\ c.ts # <<>> /\ c.ts[Len(c.ts)] \in UtcMarkers)
                    => /\ StartOf(o) = StartOf(ScrapeContainer([c EXCEPT !.ts = Front(c.ts)]))
                       /\ HasStart(c) => StartOf(o) = <<StartOfBody(BodyOf(c))>>
                       /\ c.ts = <<March, "Z">>
                            => StartOf(o) =
                                <<[wall |-> [y |-> 2025, m |-> 3, d |-> 10, hh |-> 14, mm |-> 30],
                                   tz |-> "America/Chicago", utcoffset |-> 0 - 5]>>

\* a page with '2025-03-10T14:30:00Z' and with a lower-case doubled marker was scraped
C6_Witness ==
    \E k \in DOMAIN scraped :
        /\ Len(scraped[k].result.trace) = 2
        /\ scraped[k].containers[1].ts = <<March, "Z">>
        /\ scraped[k].containers[2].ts = <<January, "z", "Z">>
        /\ scraped[k].result.trace[1].kind = "record"
        /\ scraped[k].result.trace[2].kind = "record"

WriteFailed == \E i \in DOMAIN written : written[i].outcome # "ok"

IsPrefix(s, t) == Len(s) <= Len(t) /\ s = SubSeq(t, 1, Len(s))

C8_TitleNeverEmpty ==
    \A k \in DOMAIN scraped :
        \A i \in DOMAIN scraped[k].result.trace :
            LET c == scraped[k].containers[i]
                o == scraped[k].result.trace[i]
            IN  o.kind = "record"
                    => /\ o.rec[1].title # <<>>
                       /\ (c.anchor = "none" \/ Strip(c.text) = <<>>)
                            => o.rec[1].title = NoTitleFound
                       /\ ~c.loc.present => o.rec[1].location = NoLocationFound

\* the orderings of a list
Orderings(s) ==
    {[i \in DOMAIN s |-> s[f[i]]] : f \in Permutations(DOMAIN s)}

\* the directory a run leaves that writes the events of evs in order
RECURSIVE EmitAll(_, _)
EmitAll(fs, evs) ==
    IF evs = <<>> THEN fs ELSE EmitAll(FilesAfter(fs, Head(evs), "ok"), Tail(evs))

AllWritten == pc = "done" /\ ~WriteFailed

Collide(e1, e2) == Filename(e1.title) = Filename(e2.title) /\ Content(e1) # Content(e2)

\* C9 as stated: a run whose writes all succeed leaves the directory that
\* any other ordering of its collected events would leave.
C9_OutputIndependentOfOrder ==
    AllWritten => \A p \in Orderings(all_events) : EmitAll(EmptyFiles, p) = files

\* C9 as amended: a run whose writes all succeed leaves the filenames any
\* other ordering would leave; the contents too when no two collected events
\* of different content share a filename; and every file holds the last
\* collected event of its filename.
C9_LastEventOfFilenameWins ==
    AllWritten =>
        /\ \A p \in Orderings(all_events) :
            /\ DOMAIN EmitAll(EmptyFiles, p) = DOMAIN files
            /\ (\A i, j \in DOMAIN p : ~Collide(p[i], p[j]))
                    => EmitAll(EmptyFiles, p) = files
        /\ DOMAIN files = {Filename(all_events[i].title) : i \in DOMAIN all_events}
        /\ \A i \in DOMAIN all_events :
            (\A j \in DOMAIN all_events :
                j > i => Filename(all_events[j].title) # Filename(all_events[i].title))
                => files[Filename(all_events[i].title)] = Content(all_events[i])

\* a run wrote two events of different content under one filename, after a third
C9_Witness ==
    /\ AllWritten
    /\ Len(all_events) = 3
    /\ Collide(all_events[2], all_events[3])
    /\ Cardinality(DOMAIN files) = 2

\* C10: the first request is the base page's; the page links are those of
\* the base page's markup; no file is written while a discovered page is
\* still to be requested; the records passed to generate_ics_file are the
\* collected ones in order, each once, all of them when the run has ended.
C10_StagesInOrder ==
    /\ gets # <<>> => gets[1].url = BaseUrl
    /\ pc \notin {"start", "scrape_base"} => page_links \subseteq PageLinks(soup)
    /\ written # <<>> => queue = <<>> /\ \A u \in page_links : Count(u) >= 1
    /\ IsPrefix(emitted, Collected)
    /\ Len(written) = Len(emitted)
    /\ Ended => emitted = Collected

=============================================================================
